---- MODULE Spec2Model ----
(***************************************************************************)
(* Model of src/meltano/cli/ui.py: the `meltano ui start` command, its     *)
(* start_workers supervisor, the stop_all closure it returns and the       *)
(* SIGTERM handler that invokes it (Spec, FairSpec), and the               *)
(* `meltano ui setup` command that writes ui.cfg (SetupSpec).              *)
(*                                                                         *)
(* The worker classes (meltano.api.workers) and meltano.core.utils.truthy  *)
(* are imported by ui.py but their code is not part of the sources; their  *)
(* behaviour is modelled from the specification's worker state machine.    *)
(***************************************************************************)
EXTENDS Integers, Sequences, FiniteSets, TLC

VARIABLES
    ui_file,    \* the project's ui.cfg: whether it exists, and its lines
    setupCalls, \* number of runs of the setup command so far
    lastSetup,  \* arguments and exit code of the latest setup run
    opts,       \* the command-line options --bind-port and --bind of start
    env,        \* the process environment read by os.getenv
    pc,         \* the next statement of start(), or how the process ended
    primed,     \* number of asyncio.get_child_watcher() calls made
    workers,    \* the local list `workers` of start()
    idx,        \* position of start_workers' for loop in the list
    inStart,    \* TRUE while worker.start() of workers[idx] is executing
    wstate,     \* lifecycle state of each worker
    startCalls, \* how many times start() was invoked on each worker
    startRet,   \* whether start() of each worker has returned normally
    failed,     \* index of the worker whose start() raised, 0 if none
    cleanup,    \* TRUE once start_workers has returned stop_all to start()
    handler,    \* TRUE once signal.signal(SIGTERM, handle_terminate) has run
    signals,    \* number of SIGTERMs delivered to the process
    killedAt,   \* the pc at which an unhandled SIGTERM ended the process
    stack,      \* running stop_all invocations, the innermost one last
    finished,   \* stop() calls made by each completed stop_all invocation
    stopCalls,  \* how many times stop() was invoked on each worker
    stopLogs    \* number of "Stopping all background workers..." log lines

vars == <<ui_file, setupCalls, lastSetup, opts, env, pc, primed, workers, idx, inStart, wstate, startCalls, startRet,
          failed, cleanup, handler, signals, killedAt, stack, finished,
          stopCalls, stopLogs>>

\* Number of SIGTERMs the environment delivers in one run.
MaxSignals == 2

\* Number of runs of the setup command, and the largest --bits tried.
MaxSetupCalls == 2
MaxBits == 16

(***************************************************************************)
(* The environment                                                         *)
(***************************************************************************)
\* Values an environment variable can take; "unset" stands for its absence.
DisableValues == {"unset", "false", "1"}
LoaderValues == {"unset", "", "t1"}

\* Values of --bind-port (MELTANO_API_PORT) and --bind (MELTANO_API_HOSTNAME).
BindPorts == {5000, 8080}
BindHosts == {"0.0.0.0"}

\* os.getenv(name, default)
getenv(e, name, default) == IF e[name] = "unset" THEN default ELSE e[name]

\* meltano.core.utils.truthy: true for the affirmative spellings only.
truthy(v) == v \in {"1", "true", "yes", "on"}

(***************************************************************************)
(* Worker construction, start() lines 78-101                               *)
(***************************************************************************)
Worker(kind, arg) == [kind |-> kind, arg |-> arg]

AirflowPart(e) ==
    IF ~truthy(getenv(e, "MELTANO_DISABLE_AIRFLOW", "false"))
    THEN <<Worker("AirflowWorker", "project")>>
    ELSE <<>>

dbt_docs_loader(e) == getenv(e, "MELTANO_DBT_DOCS_LOADER", "target-postgres")

DbtPart(e) ==
    IF dbt_docs_loader(e) # ""
    THEN <<Worker("DbtWorker", dbt_docs_loader(e))>>
    ELSE <<>>

\* line 94: the URL is a plain string literal, not an f-string.
ProbeWorker(o) == Worker("UIAvailableWorker", "http://localhost:{bind_port}")

\* lines 95-100: f"{bind}:{bind_port}"
ServerWorker(o) == Worker("APIWorker", o.bind \o ":" \o ToString(o.bind_port))

\* The list swapped at its head: the compiler worker registered first.
BuildWorkersCompilerFirst(e, o) ==
    <<Worker("MeltanoCompilerWorker", "project")>>
        \o AirflowPart(e)
        \o DbtPart(e)
        \o <<ProbeWorker(o), ServerWorker(o)>>

\* The probe appended after the server instead of before it.
BuildWorkersProbeLast(e, o) ==
    AirflowPart(e)
        \o <<Worker("MeltanoCompilerWorker", "project")>>
        \o DbtPart(e)
        \o <<ServerWorker(o), ProbeWorker(o)>>

BuildWorkers(e, o) ==
    AirflowPart(e)
        \o <<Worker("MeltanoCompilerWorker", "project")>>
        \o DbtPart(e)
        \o <<ProbeWorker(o), ServerWorker(o)>>

(***************************************************************************)
(* The worker lifecycle (meltano.api.workers)                              *)
(***************************************************************************)
WorkerStates == {"Stopped", "Starting", "Running", "Stopping", "Failed"}

\* stop() is accepted in every state; it releases what a worker holds.
WorkerStopEnter(s) == IF s \in {"Starting", "Running", "Failed"} THEN "Stopping" ELSE s
WorkerStopExit(s) == IF s = "Stopping" THEN "Stopped" ELSE s

(***************************************************************************)
(* Iteration of `for worker in workers`                                    *)
(***************************************************************************)
N == Len(workers)
Indices == 1..N

\* A loop that skips every other element.
StartLoopNextSkipping(k) == k + 2

\* A loop that goes back to the first worker after the second.
StartLoopNextRewinding(k) == IF k = 2 THEN 1 ELSE k + 1

StartLoopNext(k) == k + 1

\* A loop that skips every other element.
StopLoopNextSkipping(k) == k + 2

StopLoopNext(k) == k + 1

\* The main thread runs start() only while no signal handler is executing.
MainRunning == stack = <<>>

Top == stack[Len(stack)]
SetTop(f) == [stack EXCEPT ![Len(stack)] = f]

\* The start command before its first statement.
StartFresh ==
    /\ pc = "prime"
    /\ primed = 0
    /\ workers = <<>>
    /\ idx = 0
    /\ inStart = FALSE
    /\ wstate = <<>>
    /\ startCalls = <<>>
    /\ startRet = <<>>
    /\ failed = 0
    /\ cleanup = FALSE
    /\ handler = FALSE
    /\ signals = 0
    /\ killedAt = "none"
    /\ stack = <<>>
    /\ finished = <<>>
    /\ stopCalls = <<>>
    /\ stopLogs = 0

NoFile == [exists |-> FALSE, lines |-> <<>>]
NoSetupRun == [server_name |-> <<>>, bits |-> 0, overwrite |-> FALSE, exit |-> -1]

Init ==
    /\ opts \in [bind_port : BindPorts, bind : BindHosts]
    /\ env \in [MELTANO_DISABLE_AIRFLOW : DisableValues,
                 MELTANO_DBT_DOCS_LOADER : LoaderValues]
    /\ StartFresh
    /\ ui_file = NoFile
    /\ setupCalls = 0
    /\ lastSetup = NoSetupRun

(***************************************************************************)
(* start(), lines 64-109                                                   *)
(***************************************************************************)
\* start() without the priming call of line 76.
PrimeChildWatcherLeftOut ==
    /\ pc = "prime"
    /\ MainRunning
    /\ pc' = "build"
    /\ UNCHANGED <<ui_file, setupCalls, lastSetup, opts, env, primed, workers, idx, inStart, wstate, startCalls,
                   startRet, failed, cleanup, handler, signals, killedAt,
                   stack, finished, stopCalls, stopLogs>>

\* line 76: asyncio.get_child_watcher()
PrimeChildWatcher ==
    /\ pc = "prime"
    /\ MainRunning
    /\ primed' = primed + 1
    /\ pc' = "build"
    /\ UNCHANGED <<ui_file, setupCalls, lastSetup, opts, env, workers, idx, inStart, wstate, startCalls, startRet,
                   failed, cleanup, handler, signals, killedAt, stack,
                   finished, stopCalls, stopLogs>>

\* The handler of line 108 installed before start_workers is entered.
ConstructWorkersArmed ==
    /\ pc = "build"
    /\ MainRunning
    /\ workers' = BuildWorkers(env, opts)
    /\ wstate' = [i \in 1..Len(BuildWorkers(env, opts)) |-> "Stopped"]
    /\ startCalls' = [i \in 1..Len(BuildWorkers(env, opts)) |-> 0]
    /\ startRet' = [i \in 1..Len(BuildWorkers(env, opts)) |-> FALSE]
    /\ stopCalls' = [i \in 1..Len(BuildWorkers(env, opts)) |-> 0]
    /\ idx' = 1
    /\ handler' = TRUE
    /\ pc' = "start_workers"
    /\ UNCHANGED <<ui_file, setupCalls, lastSetup, opts, env, primed, inStart, failed, cleanup, signals,
                   killedAt, stack, finished, stopLogs>>

\* lines 78-101: the worker list is built; line 103 enters start_workers.
ConstructWorkers ==
    /\ pc = "build"
    /\ MainRunning
    /\ workers' = BuildWorkers(env, opts)
    /\ wstate' = [i \in 1..Len(BuildWorkers(env, opts)) |-> "Stopped"]
    /\ startCalls' = [i \in 1..Len(BuildWorkers(env, opts)) |-> 0]
    /\ startRet' = [i \in 1..Len(BuildWorkers(env, opts)) |-> FALSE]
    /\ stopCalls' = [i \in 1..Len(BuildWorkers(env, opts)) |-> 0]
    /\ idx' = 1
    /\ pc' = "start_workers"
    /\ UNCHANGED <<ui_file, setupCalls, lastSetup, opts, env, primed, inStart, failed, cleanup, handler, signals,
                   killedAt, stack, finished, stopLogs>>

(***************************************************************************)
(* start_workers, lines 28-38                                              *)
(***************************************************************************)
\* line 36: worker.start() is entered.
StartCall ==
    /\ pc = "start_workers"
    /\ MainRunning
    /\ ~inStart
    /\ idx \in Indices
    /\ inStart' = TRUE
    /\ wstate' = [wstate EXCEPT ![idx] = "Starting"]
    /\ startCalls' = [startCalls EXCEPT ![idx] = @ + 1]
    /\ UNCHANGED <<ui_file, setupCalls, lastSetup, opts, env, pc, primed, workers, idx, startRet, failed, cleanup,
                   handler, signals, killedAt, stack, finished, stopCalls,
                   stopLogs>>

\* line 36: worker.start() returns; the loop moves to the next worker.
StartReturn ==
    /\ pc = "start_workers"
    /\ MainRunning
    /\ inStart
    /\ inStart' = FALSE
    /\ wstate' = [wstate EXCEPT ![idx] = "Running"]
    /\ startRet' = [startRet EXCEPT ![idx] = TRUE]
    /\ idx' = StartLoopNext(idx)
    /\ UNCHANGED <<ui_file, setupCalls, lastSetup, opts, env, pc, primed, workers, startCalls, failed, cleanup,
                   handler, signals, killedAt, stack, finished, stopCalls,
                   stopLogs>>

\* line 36: worker.start() raises.  Nothing in start_workers or start()
\* catches it: the exception leaves both and the command ends.
StartRaise ==
    /\ pc = "start_workers"
    /\ MainRunning
    /\ inStart
    /\ inStart' = FALSE
    /\ wstate' = [wstate EXCEPT ![idx] = "Failed"]
    /\ failed' = idx
    /\ pc' = "raised"
    /\ UNCHANGED <<ui_file, setupCalls, lastSetup, opts, env, primed, workers, idx, startCalls, startRet, cleanup,
                   handler, signals, killedAt, stack, finished, stopCalls,
                   stopLogs>>

\* line 38 and line 103: the loop is over, stop_all is bound to `cleanup`.
ReturnStopAll ==
    /\ pc = "start_workers"
    /\ MainRunning
    /\ ~inStart
    /\ idx \notin Indices
    /\ cleanup' = TRUE
    /\ pc' = "signal"
    /\ UNCHANGED <<ui_file, setupCalls, lastSetup, opts, env, primed, workers, idx, inStart, wstate, startCalls,
                   startRet, failed, handler, signals, killedAt, stack,
                   finished, stopCalls, stopLogs>>

\* line 108: signal.signal(signal.SIGTERM, handle_terminate)
InstallHandler ==
    /\ pc = "signal"
    /\ MainRunning
    /\ handler' = TRUE
    /\ pc' = "log"
    /\ UNCHANGED <<ui_file, setupCalls, lastSetup, opts, env, primed, workers, idx, inStart, wstate, startCalls,
                   startRet, failed, cleanup, signals, killedAt, stack,
                   finished, stopCalls, stopLogs>>

\* line 109: logger.info("All workers started.")
LogStarted ==
    /\ pc = "log"
    /\ MainRunning
    /\ pc' = "done"
    /\ UNCHANGED <<ui_file, setupCalls, lastSetup, opts, env, primed, workers, idx, inStart, wstate, startCalls,
                   startRet, failed, cleanup, handler, signals, killedAt,
                   stack, finished, stopCalls, stopLogs>>

(***************************************************************************)
(* SIGTERM                                                                 *)
(***************************************************************************)
Alive == pc \notin {"raised", "killed"}

\* SIGTERM met by handle_terminate although line 108 has not run yet.
SigtermEarlyHandler ==
    /\ Alive
    /\ ~handler
    /\ signals < MaxSignals
    /\ signals' = signals + 1
    /\ stopLogs' = stopLogs + 1
    /\ stack' = Append(stack, [k |-> 1, inStop |-> FALSE, called |-> <<>>])
    /\ UNCHANGED <<ui_file, setupCalls, lastSetup, opts, env, pc, primed, workers, idx, inStart, wstate, startCalls,
                   startRet, failed, cleanup, handler, killedAt, finished,
                   stopCalls>>

\* SIGTERM with the default disposition: the process is terminated on the
\* spot and no Python code runs; no worker is told to stop.
SigtermDefault ==
    /\ Alive
    /\ ~handler
    /\ signals < MaxSignals
    /\ signals' = signals + 1
    /\ killedAt' = pc
    /\ pc' = "killed"
    /\ UNCHANGED <<ui_file, setupCalls, lastSetup, opts, env, primed, workers, idx, inStart, wstate, startCalls,
                   startRet, failed, cleanup, handler, stack, finished,
                   stopCalls, stopLogs>>

\* lines 105-106 and 29-30: handle_terminate runs on the main thread, on top
\* of whatever it interrupts, and calls cleanup(); stop_all logs and starts
\* its loop.
handle_terminate ==
    /\ Alive
    /\ handler
    /\ signals < MaxSignals
    /\ signals' = signals + 1
    /\ stopLogs' = stopLogs + 1
    /\ stack' = Append(stack, [k |-> 1, inStop |-> FALSE, called |-> <<>>])
    /\ UNCHANGED <<ui_file, setupCalls, lastSetup, opts, env, pc, primed, workers, idx, inStart, wstate, startCalls,
                   startRet, failed, cleanup, handler, killedAt, finished,
                   stopCalls>>

(***************************************************************************)
(* stop_all, lines 29-32                                                   *)
(***************************************************************************)
\* line 32: worker.stop() is entered by the innermost invocation.
StopCall ==
    /\ stack # <<>>
    /\ ~Top.inStop
    /\ Top.k \in Indices
    /\ wstate' = [wstate EXCEPT ![Top.k] = WorkerStopEnter(@)]
    /\ stopCalls' = [stopCalls EXCEPT ![Top.k] = @ + 1]
    /\ stack' = SetTop([Top EXCEPT !.inStop = TRUE,
                                   !.called = Append(@, [w |-> Top.k,
                                                         was |-> wstate[Top.k]])])
    /\ UNCHANGED <<ui_file, setupCalls, lastSetup, opts, env, pc, primed, workers, idx, inStart, startCalls,
                   startRet, failed, cleanup, handler, signals, killedAt,
                   finished, stopLogs>>

\* line 32: worker.stop() returns; the loop moves to the next worker.
StopReturn ==
    /\ stack # <<>>
    /\ Top.inStop
    /\ wstate' = [wstate EXCEPT ![Top.k] = WorkerStopExit(@)]
    /\ stack' = SetTop([Top EXCEPT !.inStop = FALSE, !.k = StopLoopNext(@)])
    /\ UNCHANGED <<ui_file, setupCalls, lastSetup, opts, env, pc, primed, workers, idx, inStart, startCalls,
                   startRet, failed, cleanup, handler, signals, killedAt,
                   finished, stopCalls, stopLogs>>

\* The loop is over: stop_all and handle_terminate return to what the
\* signal interrupted.
StopAllReturn ==
    /\ stack # <<>>
    /\ ~Top.inStop
    /\ Top.k \notin Indices
    /\ finished' = Append(finished, Top.called)
    /\ stack' = SubSeq(stack, 1, Len(stack) - 1)
    /\ UNCHANGED <<ui_file, setupCalls, lastSetup, opts, env, pc, primed, workers, idx, inStart, wstate, startCalls,
                   startRet, failed, cleanup, handler, signals, killedAt,
                   stopCalls, stopLogs>>

(***************************************************************************)
(* A running worker fails on its own                                       *)
(***************************************************************************)
WorkerCrash ==
    /\ Alive
    /\ \E i \in Indices :
        /\ wstate[i] = "Running"
        /\ wstate' = [wstate EXCEPT ![i] = "Failed"]
    /\ UNCHANGED <<ui_file, setupCalls, lastSetup, opts, env, pc, primed, workers, idx, inStart, startCalls,
                   startRet, failed, cleanup, handler, signals, killedAt,
                   stack, finished, stopCalls, stopLogs>>

Next ==
    \/ PrimeChildWatcher
    \/ ConstructWorkers
    \/ StartCall
    \/ StartReturn
    \/ StartRaise
    \/ ReturnStopAll
    \/ InstallHandler
    \/ LogStarted
    \/ SigtermDefault
    \/ handle_terminate
    \/ StopCall
    \/ StopReturn
    \/ StopAllReturn
    \/ WorkerCrash

Spec == Init /\ [][Next]_vars

\* The interpreter keeps executing a signal handler that has begun, and
\* every worker.stop() returns.
FairSpec ==
    /\ Spec
    /\ WF_vars(StopCall)
    /\ WF_vars(StopReturn)
    /\ WF_vars(StopAllReturn)

(***************************************************************************)
(* setup(), lines 112-144                                                  *)
(***************************************************************************)
startVars == <<opts, env, pc, primed, workers, idx, inStart, wstate,
               startCalls, startRet, failed, cleanup, handler, signals,
               killedAt, stack, finished, stopCalls, stopLogs>>

\* Arguments of one run: server_name, --bits, --overwrite.
ServerNames == { <<"u", "i", ".", "i", "o">>, <<"a", "b">> }
SetupArgs == [server_name : ServerNames, bits : 1..MaxBits, overwrite : BOOLEAN]

\* Values a random byte is drawn from.
ByteValues == {0, 175}

HexDigits == <<"0", "1", "2", "3", "4", "5", "6", "7",
               "8", "9", "a", "b", "c", "d", "e", "f">>

\* A check that lets --overwrite through.
MustAbortUnlessOverwrite(f, flags) == f.exists /\ ~flags.overwrite

\* line 124: ui_file_path.exists(); the flags are not consulted.
MustAbort(f, flags) == f.exists

\* A byte count rounded up instead of down.
SecretBytesRoundedUp(bits) == (bits + 7) \div 8

\* line 128: int(flags["bits"] / 8), truncating towards zero
SecretBytes(bits) == IF bits >= 0 THEN bits \div 8 ELSE -((-bits) \div 8)

\* secrets.token_bytes(n): n random bytes
token_bytes(n) == [1..n -> ByteValues]

\* secrets.token_hex: two hexadecimal digits for each byte
token_hex(b) ==
    [i \in 1..(2 * Len(b)) |->
        IF i % 2 = 1
        THEN HexDigits[(b[(i + 1) \div 2] \div 16) + 1]
        ELSE HexDigits[(b[i \div 2] % 16) + 1]]

\* lines 130-136 and 142-144: one line `KEY = "value"` per entry of config
ConfigLines(server_name, b1, b2, b3) ==
    << [key |-> "SESSION_COOKIE_DOMAIN", sep |-> " = ", value |-> server_name],
       [key |-> "SECRET_KEY", sep |-> " = ", value |-> token_hex(b1)],
       [key |-> "JWT_SECRET_KEY", sep |-> " = ", value |-> token_hex(b2)],
       [key |-> "SECURITY_PASSWORD_SALT", sep |-> " = ", value |-> token_hex(b3)] >>

\* A ui.cfg left by hand or by an earlier version.
OldFile ==
    [exists |-> TRUE,
     lines |-> << [key |-> "SECRET_KEY", sep |-> " = ", value |-> <<"o", "l", "d">>] >>]

\* lines 124-126: the file exists; click.Abort ends the command with exit
\* code 1 and the file is not opened.
SetupAborts ==
    /\ setupCalls < MaxSetupCalls
    /\ \E a \in SetupArgs :
        /\ MustAbort(ui_file, a)
        /\ lastSetup' = [server_name |-> a.server_name, bits |-> a.bits,
                         overwrite |-> a.overwrite, exit |-> 1]
    /\ setupCalls' = setupCalls + 1
    /\ UNCHANGED <<ui_file, startVars>>

\* lines 128-144: the secrets are generated and the file is written.
SetupWrites ==
    /\ setupCalls < MaxSetupCalls
    /\ \E a \in SetupArgs :
        /\ ~MustAbort(ui_file, a)
        /\ \E b1, b2, b3 \in token_bytes(SecretBytes(a.bits)) :
               ui_file' = [exists |-> TRUE,
                           lines |-> ConfigLines(a.server_name, b1, b2, b3)]
        /\ lastSetup' = [server_name |-> a.server_name, bits |-> a.bits,
                         overwrite |-> a.overwrite, exit |-> 0]
    /\ setupCalls' = setupCalls + 1
    /\ UNCHANGED startVars

\* The user deletes ui.cfg, as the message of line 125 asks.
DeleteFile ==
    /\ ui_file.exists
    /\ ui_file' = NoFile
    /\ UNCHANGED <<setupCalls, lastSetup, startVars>>

SetupInit ==
    /\ opts = [bind_port |-> 5000, bind |-> "0.0.0.0"]
    /\ env = [MELTANO_DISABLE_AIRFLOW |-> "unset",
              MELTANO_DBT_DOCS_LOADER |-> "unset"]
    /\ StartFresh
    /\ ui_file \in {NoFile, OldFile}
    /\ setupCalls = 0
    /\ lastSetup = NoSetupRun

SetupNext ==
    \/ SetupAborts
    \/ SetupWrites
    \/ DeleteFile

SetupSpec == SetupInit /\ [][SetupNext]_vars

(***************************************************************************)
(* Properties                                                              *)
(***************************************************************************)
AllStopInvoked == \A i \in Indices : stopCalls[i] >= 1
BegunStarting == \E i \in Indices : startCalls[i] >= 1
Invocations == Len(stack) + Len(finished)

\* C1: start_workers invokes start() at most once on each worker and
\* strictly in registration order (worker i's start() has returned before
\* worker j's begins, for i < j); once start_workers has returned, start()
\* has been invoked exactly once on every worker of the list.
C1_StartInOrder ==
    /\ \A i \in Indices : startCalls[i] <= 1
    /\ \A i, j \in Indices : (i < j /\ startCalls[j] >= 1) => startRet[i]
    /\ cleanup => \A i \in Indices : startCalls[i] = 1 /\ startRet[i]

\* start_workers has returned after starting the full list of five.
C1_Witness == cleanup /\ N = 5 /\ \A i \in Indices : startCalls[i] = 1

\* C2: one invocation of stop_all calls stop() on every registered worker,
\* once each and in registration order, whatever state each worker is in.
C2_StopAllInOrder ==
    /\ \A f \in 1..Len(stack) :
        /\ Len(stack[f].called) =
               IF stack[f].inStop THEN stack[f].k ELSE stack[f].k - 1
        /\ \A p \in 1..Len(stack[f].called) : stack[f].called[p].w = p
    /\ \A g \in 1..Len(finished) :
        /\ Len(finished[g]) = N
        /\ \A p \in 1..N : finished[g][p].w = p

\* A completed invocation that met a Failed worker and a Running one.
C2_Witness ==
    \E g \in 1..Len(finished) :
        /\ \E p \in 1..Len(finished[g]) : finished[g][p].was = "Failed"
        /\ \E p \in 1..Len(finished[g]) : finished[g][p].was = "Running"

\* C3: once the start command has begun starting workers, a SIGTERM
\* delivered at any later point eventually leads to stop() having been
\* invoked on every registered worker.
C3_SigtermStopsAll == (signals >= 1 /\ BegunStarting) ~> AllStopInvoked

\* C4: invoking the stop closure twice has the same observable effect as
\* invoking it once: whenever at least one invocation has completed and none
\* is running, the aggregate action has been logged once and stop() has
\* taken place once on each worker.
C4_StopAllIdempotent ==
    (stack = <<>> /\ Len(finished) >= 1) =>
        /\ stopLogs = 1
        /\ \A i \in Indices : stopCalls[i] = 1

\* C5: SIGTERM triggers the stop sequence exactly once even when it arrives
\* twice, also while the first sequence is still iterating: the sequence is
\* begun at most once and no worker's stop() is invoked twice.
C5_StopSequenceOnce ==
    /\ Invocations <= 1
    /\ \A i \in Indices : stopCalls[i] <= 1

\* C6: a failing start() does not abort startup of the later workers: when
\* the command has come to rest after worker i's start() failed, i is Failed
\* and start() has been invoked on every worker after i.
C6_StartContinuesPastFailure ==
    (failed # 0 /\ pc = "raised") =>
        /\ wstate[failed] = "Failed"
        /\ \A j \in Indices : j > failed => startCalls[j] = 1

\* C7: a failure of a worker's start() never propagates out of
\* start_workers: whenever control has left start_workers, the stop closure
\* has been returned to the caller.
C7_StartWorkersAlwaysReturns ==
    pc \notin {"prime", "build", "start_workers", "killed"} => cleanup

\* C8: with three workers of which the second fails start(), the first and
\* the third have been started, the second is Failed and the stop closure is
\* at hand; once it has run, all three are Stopped.
C8_PartialStackStoppable ==
    (N = 3 /\ failed = 2) =>
        /\ pc # "start_workers" => (startRet[1] /\ startRet[3] /\ cleanup)
        /\ (stack = <<>> /\ Len(finished) >= 1) =>
               \A i \in Indices : wstate[i] = "Stopped"

\* C9: a stop requested by SIGTERM before start_workers has completed leaves
\* every worker Stopped or Failed: none remains Starting or Running.
C9_EarlyStopLeavesNoneRunning ==
    killedAt = "start_workers" =>
        \A i \in Indices : wstate[i] \in {"Stopped", "Failed"}

Kinds(ws) == [i \in 1..Len(ws) |-> ws[i].kind]

\* C10 as stated: the list is CompilerWorker, AirflowWorker iff the disable
\* toggle is absent, DbtWorker iff a target name is configured,
\* UIAvailableWorker, APIWorker, in this order.
C10_WorkerSetAsClaimed ==
    workers # <<>> =>
        Kinds(workers) =
            <<"MeltanoCompilerWorker">>
            \o (IF env.MELTANO_DISABLE_AIRFLOW = "unset"
                THEN <<"AirflowWorker">> ELSE <<>>)
            \o (IF env.MELTANO_DBT_DOCS_LOADER \notin {"unset", ""}
                THEN <<"DbtWorker">> ELSE <<>>)
            \o <<"UIAvailableWorker", "APIWorker">>

\* C10, amended: the list is AirflowWorker iff MELTANO_DISABLE_AIRFLOW is
\* not set to an affirmative value, MeltanoCompilerWorker, DbtWorker for the
\* loader iff MELTANO_DBT_DOCS_LOADER is not the empty string (unset, it
\* defaults to target-postgres), UIAvailableWorker, APIWorker, in this order.
C10_WorkerSet ==
    workers # <<>> =>
        /\ Kinds(workers) =
               (IF env.MELTANO_DISABLE_AIRFLOW # "1"
                THEN <<"AirflowWorker">> ELSE <<>>)
               \o <<"MeltanoCompilerWorker">>
               \o (IF env.MELTANO_DBT_DOCS_LOADER # ""
                   THEN <<"DbtWorker">> ELSE <<>>)
               \o <<"UIAvailableWorker", "APIWorker">>
        /\ \A i \in Indices :
               workers[i].kind = "DbtWorker" =>
                   workers[i].arg =
                       IF env.MELTANO_DBT_DOCS_LOADER = "unset"
                       THEN "target-postgres"
                       ELSE env.MELTANO_DBT_DOCS_LOADER

\* The toggle is set but not affirmative and no loader is named in the
\* environment: all five workers are registered and started.
C10_Witness ==
    /\ env.MELTANO_DISABLE_AIRFLOW = "false"
    /\ env.MELTANO_DBT_DOCS_LOADER = "unset"
    /\ N = 5
    /\ cleanup

\* C11: the child watcher is primed at most once, and it has been primed
\* exactly once by the time any worker is constructed or started.
C11_PrimedOnceBeforeWorkers ==
    /\ primed <= 1
    /\ workers # <<>> => primed = 1
    /\ BegunStarting => primed = 1

\* A worker's start() has been entered, after the one priming call.
C11_Witness == primed = 1 /\ inStart /\ idx = 1

\* C15: the SIGTERM handler is installed only after start_workers has
\* returned, when every worker's start() has returned; stop_all never runs
\* while a start() is in progress, and a SIGTERM that arrives before the
\* handler is installed invokes no worker's stop().
C15_HandlerAfterStartup ==
    /\ handler => (cleanup /\ \A i \in Indices : startRet[i])
    /\ Invocations >= 1 => (handler /\ ~inStart /\ \A i \in Indices : startRet[i])
    /\ killedAt # "none" =>
           (Invocations = 0 /\ \A i \in Indices : stopCalls[i] = 0)

\* A SIGTERM ended the process inside a worker's start(), workers before it
\* already running, and nothing was stopped.
C15_Witness ==
    /\ killedAt = "start_workers"
    /\ inStart
    /\ idx >= 2
    /\ \A i \in Indices : stopCalls[i] = 0

\* C16: the APIWorker is the last worker of the list, the only one of its
\* kind, and the last one started; the UIAvailableWorker is registered
\* immediately before it.
C16_ServerLastProbeBefore ==
    workers # <<>> =>
        /\ N >= 2
        /\ workers[N].kind = "APIWorker"
        /\ workers[N - 1].kind = "UIAvailableWorker"
        /\ \A i \in Indices : workers[i].kind = "APIWorker" => i = N
        /\ startCalls[N] >= 1 => \A i \in 1..(N - 1) : startRet[i]

\* The server's start() is executing as the last of the shortest list.
C16_Witness ==
    /\ N = 3
    /\ inStart
    /\ idx = N
    /\ workers[idx].kind = "APIWorker"

AllowedTransitions ==
    { <<"Stopped", "Starting">>, <<"Starting", "Running">>,
      <<"Starting", "Failed">>, <<"Running", "Failed">>,
      <<"Running", "Stopping">>, <<"Stopping", "Stopped">>,
      <<"Failed", "Stopping">> }

\* C17: every change of a worker's state is one of Stopped->Starting,
\* Starting->Running, Starting->Failed, Running->Failed, Running->Stopping,
\* Stopping->Stopped, or Failed->Stopping (stop() of a Failed worker).
C17_MonotonicTransitions ==
    [][\A i \in Indices :
           wstate'[i] # wstate[i] => <<wstate[i], wstate'[i]>> \in AllowedTransitions]_vars

\* Every stop_all invocation is over, one of them met a Failed worker, and
\* every worker has come to Stopped.
C17_Witness ==
    /\ stack = <<>>
    /\ \E g \in 1..Len(finished) :
           \E p \in 1..Len(finished[g]) : finished[g][p].was = "Failed"
    /\ \A i \in Indices : wstate[i] = "Stopped"
    /\ N >= 1

\* C18: no worker is restarted: start() is only ever invoked on a worker on
\* which neither start() nor stop() has been invoked before.
C18_NoRestart ==
    [][\A i \in Indices :
           startCalls'[i] > startCalls[i] =>
               (startCalls[i] = 0 /\ stopCalls[i] = 0)]_vars

\* Two SIGTERMs were handled and every worker was still started only once.
C18_Witness ==
    /\ Len(finished) = 2
    /\ N >= 1
    /\ \A i \in Indices : startCalls[i] = 1 /\ stopCalls[i] = 2

ProbeUrl == workers[N - 1].arg
ServerBind == workers[N].arg

\* C19: the endpoint the UIAvailableWorker is constructed to poll carries
\* the port the APIWorker is constructed to bind to.
C19_ProbePollsServerPort ==
    workers # <<>> =>
        \E p \in BindPorts :
            /\ ServerBind = opts.bind \o ":" \o ToString(p)
            /\ ProbeUrl = "http://localhost:" \o ToString(p)

SetupRuns == setupCalls' = setupCalls + 1

IsHex(v) == \A i \in 1..Len(v) : \E d \in 1..Len(HexDigits) : v[i] = HexDigits[d]

\* C12: whenever ui.cfg already exists, a run of setup ends with a non-zero
\* exit code and leaves the file as it was, whatever --overwrite and --bits.
C12_ExistingFileRefused ==
    [][(SetupRuns /\ ui_file.exists) =>
           (lastSetup'.exit # 0 /\ ui_file' = ui_file)]_vars

\* A second run, with --overwrite, was refused on the file the first wrote.
C12_Witness ==
    /\ setupCalls = 2
    /\ lastSetup.exit = 1
    /\ lastSetup.overwrite
    /\ ui_file.exists
    /\ Len(ui_file.lines) = 4

\* C13 as stated: when ui.cfg does not exist, setup succeeds and writes
\* exactly 4 lines whose values are hex strings of length bits/4.
C13_FourHexLinesOfBitsOver4 ==
    [][(SetupRuns /\ ~ui_file.exists) =>
           /\ lastSetup'.exit = 0
           /\ ui_file'.exists
           /\ Len(ui_file'.lines) = 4
           /\ \A i \in 1..Len(ui_file'.lines) :
                  /\ IsHex(ui_file'.lines[i].value)
                  /\ 4 * Len(ui_file'.lines[i].value) = lastSetup'.bits]_vars

\* C13, amended: when ui.cfg does not exist, setup succeeds and writes
\* exactly 4 lines: SESSION_COOKIE_DOMAIN with the server name as its value,
\* then SECRET_KEY, JWT_SECRET_KEY and SECURITY_PASSWORD_SALT, each with a
\* hex string whose length L is the largest even number not above bits/4
\* (L = bits/4 when bits is a multiple of 8).
C13_FourLinesThreeSecrets ==
    [][(SetupRuns /\ ~ui_file.exists) =>
           /\ lastSetup'.exit = 0
           /\ ui_file'.exists
           /\ [i \in 1..Len(ui_file'.lines) |-> ui_file'.lines[i].key] =
                  <<"SESSION_COOKIE_DOMAIN", "SECRET_KEY", "JWT_SECRET_KEY",
                    "SECURITY_PASSWORD_SALT">>
           /\ ui_file'.lines[1].value = lastSetup'.server_name
           /\ \A i \in 2..Len(ui_file'.lines) :
                  LET L == Len(ui_file'.lines[i].value) IN
                  /\ IsHex(ui_file'.lines[i].value)
                  /\ L % 2 = 0
                  /\ 4 * L <= lastSetup'.bits
                  /\ lastSetup'.bits < 4 * L + 8]_vars

\* A run with --bits 12 succeeded: its secrets have 2 hex digits, not 3.
C13_Witness ==
    /\ lastSetup.exit = 0
    /\ lastSetup.bits = 12
    /\ ui_file.exists
    /\ Len(ui_file.lines) = 4
    /\ Len(ui_file.lines[2].value) = 2
====
